---- MODULE Spec2Model ----
(***************************************************************************)
(* The random-number scheme of osdepend.c (Glulxe): glulx_setrandom and    *)
(* glulx_random, the native-RNG macros RAND_SET_SEED / RAND_GET of each    *)
(* build, and the xoshiro128** generator mt_seed_random / mt_random.       *)
(*                                                                         *)
(* A 32-bit word (glui32, uint32_t) is the record [hi, lo] of its two      *)
(* 16-bit halves, so that every operation wraps at 2^32 exactly as the C   *)
(* arithmetic does.  The statics of one process (rand_use_native,          *)
(* mt_table and the state of the platform RNG) are kept once per run.      *)
(* Spec is one run of the program; SpecPair puts two runs of the same      *)
(* build side by side, for the statements that compare two generators.     *)
(***************************************************************************)
EXTENDS Integers, Sequences, FiniteSets, TLC

VARIABLES
  build,            \* which definition of RAND_SET_SEED / RAND_GET is compiled
  rand_use_native,  \* per run: static int rand_use_native
  mt_table,         \* per run: static uint32_t mt_table[4]
  native_seeded,    \* per run: srandom() has been called (OS_UNIX)
  lastSeed,         \* per run: <<seed>> of the latest glulx_setrandom, or <<>>
  expArg,           \* per run: <<seed>> of the latest mt_seed_random, or <<>>
  clockRead,        \* per run: <<t>> of the latest time(NULL), or <<>>
  outs,             \* per run: the values mt_random returned since the latest
                    \* glulx_setrandom (or since the start)
  nseeds,           \* per run: the number of glulx_setrandom calls
  last              \* the call log of the last entry point (kept by Spec)

vars == <<build, rand_use_native, mt_table, native_seeded,
          lastSeed, expArg, clockRead, outs, nseeds, last>>

(***************************************************************************)
(* Bounds of the model.                                                    *)
(***************************************************************************)
\* glulx_setrandom calls per run
MaxSeeds == 2

\* mt_random calls after the latest glulx_setrandom (or after start)
MaxOut == 2

Runs == {1, 2}

(***************************************************************************)
(* 32-bit unsigned arithmetic on [hi, lo].                                 *)
(***************************************************************************)
W(h, l) == [hi |-> h, lo |-> l]

Zero32 == W(0, 0)

RECURSIVE XorN(_, _, _)
\* bitwise exclusive or of two n-bit naturals
XorN(a, b, n) ==
  IF n = 0 THEN 0
  ELSE ((a + b) % 2) + 2 * XorN(a \div 2, b \div 2, n - 1)

RECURSIVE XorRow(_, _)
\* <<a ^ b, a ^ (b+1), ..., a ^ 15>>
XorRow(a, b) == IF b > 15 THEN <<>> ELSE <<XorN(a, b, 4)>> \o XorRow(a, b + 1)

RECURSIVE XorRows(_)
XorRows(a) == IF a > 15 THEN <<>> ELSE <<XorRow(a, 0)>> \o XorRows(a + 1)

\* the exclusive or of two 4-bit values, tabulated: XorNib[a + 1][b + 1] = a ^ b
XorNib == XorRows(0)

\* the exclusive or of two 16-bit values, four bits at a time
Xor16(a, b) ==
  XorNib[(a \div 4096) + 1][(b \div 4096) + 1] * 4096
  + XorNib[((a \div 256) % 16) + 1][((b \div 256) % 16) + 1] * 256
  + XorNib[((a \div 16) % 16) + 1][((b \div 16) % 16) + 1] * 16
  + XorNib[(a % 16) + 1][(b % 16) + 1]

\* x ^ y
Xor32(x, y) == W(Xor16(x.hi, y.hi), Xor16(x.lo, y.lo))

RECURSIVE OrN(_, _, _)
\* bitwise or of two n-bit naturals
OrN(a, b, n) ==
  IF n = 0 THEN 0
  ELSE (IF (a % 2) + (b % 2) > 0 THEN 1 ELSE 0) + 2 * OrN(a \div 2, b \div 2, n - 1)

RECURSIVE OrRow(_, _)
\* <<a | b, a | (b+1), ..., a | 15>>
OrRow(a, b) == IF b > 15 THEN <<>> ELSE <<OrN(a, b, 4)>> \o OrRow(a, b + 1)

RECURSIVE OrRows(_)
OrRows(a) == IF a > 15 THEN <<>> ELSE <<OrRow(a, 0)>> \o OrRows(a + 1)

\* the or of two 4-bit values, tabulated: OrNib[a + 1][b + 1] = a | b
OrNib == OrRows(0)

\* the or of two 16-bit values, four bits at a time
Or16(a, b) ==
  OrNib[(a \div 4096) + 1][(b \div 4096) + 1] * 4096
  + OrNib[((a \div 256) % 16) + 1][((b \div 256) % 16) + 1] * 256
  + OrNib[((a \div 16) % 16) + 1][((b \div 16) % 16) + 1] * 16
  + OrNib[(a % 16) + 1][(b % 16) + 1]

\* x | y
Or32(x, y) == W(Or16(x.hi, y.hi), Or16(x.lo, y.lo))

\* x + y, wrapping at 2^32
Add32(x, y) ==
  LET l == x.lo + y.lo
      h == x.hi + y.hi + (l \div 2^16)
  IN  W(h % 2^16, l % 2^16)

\* x >> k for 0 <= k <= 31
Shr32(x, k) ==
  IF k >= 16
  THEN W(0, x.hi \div 2^(k - 16))
  ELSE W(x.hi \div 2^k, (x.lo \div 2^k) + (x.hi % 2^k) * 2^(16 - k))

\* x << k for 0 <= k <= 31, the high bits discarded
Shl32(x, k) ==
  IF k >= 16
  THEN W((x.lo % 2^(32 - k)) * 2^(k - 16), 0)
  ELSE W((x.hi % 2^(16 - k)) * 2^k + (x.lo \div 2^(16 - k)), (x.lo % 2^(16 - k)) * 2^k)

\* x * b for a byte b, wrapping at 2^32
MulByte(x, b) ==
  LET l == x.lo * b
      h == x.hi * b + (l \div 2^16)
  IN  W(h % 2^16, l % 2^16)

\* x * y, wrapping at 2^32 (y taken a byte at a time)
Mul32(x, y) ==
  Add32(Add32(MulByte(x, y.lo % 256), Shl32(MulByte(x, y.lo \div 256), 8)),
        Add32(Shl32(MulByte(x, y.hi % 256), 16), Shl32(MulByte(x, y.hi \div 256), 24)))

(***************************************************************************)
(* The xoshiro128** generator and its seed function.                       *)
(***************************************************************************)
\* 0x9E3779B9
GOLDEN == W(40503, 31161)

\* 0x85EBCA6B
MIX1 == W(34283, 51819)

\* 0xC2B2AE35
MIX2 == W(49842, 44597)

\* static uint32_t mt_table[4], zero-initialised
mt_table_init == <<Zero32, Zero32, Zero32, Zero32>>

\* mt_seed_body with "mt_table[ix] ^= s" for "mt_table[ix] = s"
mt_seed_body_xor_in(table, seed, ix) ==
  LET seed1 == Add32(seed, GOLDEN)
      s0 == seed1
      s1 == Xor32(s0, Shr32(s0, 15))
      s2 == Mul32(s1, MIX1)
      s3 == Xor32(s2, Shr32(s2, 13))
      s4 == Mul32(s3, MIX2)
      s5 == Xor32(s4, Shr32(s4, 16))
  IN  [table |-> [table EXCEPT ![ix + 1] = Xor32(table[ix + 1], s5)], seed |-> seed1]

\* mt_seed_body with the mixed value written back to seed
mt_seed_body_feedback(table, seed, ix) ==
  LET seed1 == Add32(seed, GOLDEN)
      s0 == seed1
      s1 == Xor32(s0, Shr32(s0, 15))
      s2 == Mul32(s1, MIX1)
      s3 == Xor32(s2, Shr32(s2, 13))
      s4 == Mul32(s3, MIX2)
      s5 == Xor32(s4, Shr32(s4, 16))
  IN  [table |-> [table EXCEPT ![ix + 1] = s5], seed |-> s5]

\* mt_seed_body with "s = seed + 0x9E3779B9" for "seed += 0x9E3779B9; s = seed"
mt_seed_body_no_carry(table, seed, ix) ==
  LET seed1 == Add32(seed, GOLDEN)
      s0 == seed1
      s1 == Xor32(s0, Shr32(s0, 15))
      s2 == Mul32(s1, MIX1)
      s3 == Xor32(s2, Shr32(s2, 13))
      s4 == Mul32(s3, MIX2)
      s5 == Xor32(s4, Shr32(s4, 16))
  IN  [table |-> [table EXCEPT ![ix + 1] = s5], seed |-> seed]

\* one pass of the body of the loop of mt_seed_random: the new mt_table and
\* the new value of seed
mt_seed_body(table, seed, ix) ==
  LET seed1 == Add32(seed, GOLDEN)
      s0 == seed1
      s1 == Xor32(s0, Shr32(s0, 15))
      s2 == Mul32(s1, MIX1)
      s3 == Xor32(s2, Shr32(s2, 13))
      s4 == Mul32(s3, MIX2)
      s5 == Xor32(s4, Shr32(s4, 16))
  IN  [table |-> [table EXCEPT ![ix + 1] = s5], seed |-> seed1]

RECURSIVE mt_seed_loop(_, _, _)
\* for (ix=0; ix<4; ix++) { ... }
mt_seed_loop(table, seed, ix) ==
  IF ix < 4
  THEN LET b == mt_seed_body(table, seed, ix)
       IN  mt_seed_loop(b.table, b.seed, ix + 1)
  ELSE table

\* mt_seed_random(seed), run on the mt_table it finds
mt_seed_random(table, seed) == mt_seed_loop(table, seed, 0)

\* rotl(x, k)
rotl(x, k) == Or32(Shl32(x, k), Shr32(x, 32 - k))

\* mt_random with t taken after the four xor updates
mt_random_late_t(table) ==
  LET result == Mul32(rotl(Mul32(table[2], W(0, 5)), 7), W(0, 9))
      a  == [table EXCEPT ![3] = Xor32(table[3], table[1])]
      b  == [a EXCEPT ![4] = Xor32(a[4], a[2])]
      c  == [b EXCEPT ![2] = Xor32(b[2], b[3])]
      d  == [c EXCEPT ![1] = Xor32(c[1], c[4])]
      t  == Shl32(d[2], 9)
      e  == [d EXCEPT ![3] = Xor32(d[3], t)]
      f  == [e EXCEPT ![4] = rotl(e[4], 11)]
  IN  [result |-> result, table |-> f]

\* mt_random with "mt_table[1] + 5" for "mt_table[1] * 5"
mt_random_plus5(table) ==
  LET result == Mul32(rotl(Add32(table[2], W(0, 5)), 7), W(0, 9))
      t  == Shl32(table[2], 9)
      a  == [table EXCEPT ![3] = Xor32(table[3], table[1])]
      b  == [a EXCEPT ![4] = Xor32(a[4], a[2])]
      c  == [b EXCEPT ![2] = Xor32(b[2], b[3])]
      d  == [c EXCEPT ![1] = Xor32(c[1], c[4])]
      e  == [d EXCEPT ![3] = Xor32(d[3], t)]
      f  == [e EXCEPT ![4] = rotl(e[4], 11)]
  IN  [result |-> result, table |-> f]

\* mt_random(): the value returned and the mt_table left behind
mt_random(table) ==
  LET result == Mul32(rotl(Mul32(table[2], W(0, 5)), 7), W(0, 9))
      t  == Shl32(table[2], 9)
      a  == [table EXCEPT ![3] = Xor32(table[3], table[1])]
      b  == [a EXCEPT ![4] = Xor32(a[4], a[2])]
      c  == [b EXCEPT ![2] = Xor32(b[2], b[3])]
      d  == [c EXCEPT ![1] = Xor32(c[1], c[4])]
      e  == [d EXCEPT ![3] = Xor32(d[3], t)]
      f  == [e EXCEPT ![4] = rotl(e[4], 11)]
  IN  [result |-> result, table |-> f]

(***************************************************************************)
(* The builds of the file, the clock and the platform RNG.                 *)
(***************************************************************************)
\* A build is named by the definition of RAND_SET_SEED / RAND_GET it compiles.
\* "xoshiro" is mt_seed_random(time(NULL)) / mt_random(): the text of OS_STDC,
\* of OS_WINDOWS without _MSC_VER and of the fallback for a build that defines
\* no native RNG.
BuiltinBuilds == {"xoshiro"}

\* OS_UNIX uses srandom / random, OS_WINDOWS with _MSC_VER uses rand_s
PlatformBuilds == {"OS_UNIX", "OS_WINDOWS_MSC"}

Builds == BuiltinBuilds \cup PlatformBuilds

\* the seeds handed to glulx_setrandom: 0, 1 and 0x61C88647, the seed whose
\* first accumulator value is 0
Seeds == {Zero32, W(0, 1), W(25032, 34375)}

\* values of time(NULL): a time_t is wider than a glui32, ext holds the bits
\* above bit 31
ClockVals == {[ext |-> 0, hi |-> 25032, lo |-> 34375], [ext |-> 1, hi |-> 0, lo |-> 1]}

\* values the platform RNG (random(), rand_s()) hands out
NativeVals == {W(0, 7), W(4660, 22136)}

\* the conversion of the time_t argument to the glui32 parameter of
\* mt_seed_random
time_to_glui32(clock) == W(clock.hi, clock.lo)

(***************************************************************************)
(* The statics of one run, and the calls made while one entry point runs.  *)
(* calls lists each function or macro entered, with the value              *)
(* rand_use_native had at that moment.                                     *)
(***************************************************************************)
Machine(r) ==
  [rand_use_native |-> rand_use_native[r],
   mt_table        |-> mt_table[r],
   native_seeded   |-> native_seeded[r],
   seeded_with     |-> expArg[r],
   clock_read      |-> clockRead[r],
   native_ret      |-> <<>>,
   ret             |-> <<>>,
   calls           |-> <<>>]

Enter(m, f) ==
  [m EXCEPT !.calls = Append(@, [fn |-> f, native |-> m.rand_use_native])]

\* a call of mt_seed_random(seed)
call_mt_seed_random(m, seed) ==
  [Enter(m, "mt_seed_random") EXCEPT
     !.mt_table = mt_seed_random(m.mt_table, seed),
     !.seeded_with = <<seed>>]

\* a call of mt_random()
call_mt_random(m) ==
  LET r == mt_random(m.mt_table)
  IN  [Enter(m, "mt_random") EXCEPT !.mt_table = r.table, !.ret = <<r.result>>]

\* RAND_SET_SEED that seeds nothing in any build
RAND_SET_SEED_noop(b, m, clock) == Enter(m, "RAND_SET_SEED")

\* the macro RAND_SET_SEED() of build b, time(NULL) being clock
RAND_SET_SEED(b, m, clock) ==
  LET m1 == Enter(m, "RAND_SET_SEED")
  IN  CASE b \in BuiltinBuilds ->
             call_mt_seed_random([m1 EXCEPT !.clock_read = <<clock>>],
                                 time_to_glui32(clock))
        [] b = "OS_UNIX" ->
             [m1 EXCEPT !.clock_read = <<clock>>, !.native_seeded = TRUE]
        [] b = "OS_WINDOWS_MSC" -> m1

\* the macro RAND_GET() of build b, the platform RNG handing out nv
RAND_GET(b, m, nv) ==
  LET m1 == Enter(m, "RAND_GET")
  IN  IF b \in BuiltinBuilds
      THEN LET m2 == call_mt_random(m1)
           IN  [m2 EXCEPT !.native_ret = m2.ret]
      ELSE [m1 EXCEPT !.native_ret = <<nv>>, !.ret = <<nv>>]

\* glulx_setrandom without "rand_use_native = FALSE"
glulx_setrandom_keeps_mode(b, m, seed, clock) ==
  IF seed = Zero32
  THEN RAND_SET_SEED(b, [m EXCEPT !.rand_use_native = TRUE], clock)
  ELSE call_mt_seed_random(m, seed)

\* glulx_setrandom without "rand_use_native = TRUE"
glulx_setrandom_zero_keeps_mode(b, m, seed, clock) ==
  IF seed = Zero32
  THEN RAND_SET_SEED(b, m, clock)
  ELSE call_mt_seed_random([m EXCEPT !.rand_use_native = FALSE], seed)

\* void glulx_setrandom(glui32 seed)
glulx_setrandom(b, m, seed, clock) ==
  IF seed = Zero32
  THEN RAND_SET_SEED(b, [m EXCEPT !.rand_use_native = TRUE], clock)
  ELSE call_mt_seed_random([m EXCEPT !.rand_use_native = FALSE], seed)

\* glulx_random that never looks at rand_use_native
glulx_random_always_native(b, m, nv) == RAND_GET(b, m, nv)

\* glui32 glulx_random()
glulx_random(b, m, nv) ==
  IF m.rand_use_native
  THEN RAND_GET(b, m, nv)
  ELSE call_mt_random(m)

(***************************************************************************)
(* The state machine.                                                      *)
(***************************************************************************)
\* what the last entry point did: its run, its argument, the statics it
\* found, the calls it made and the value it returned
NoOp ==
  [op |-> "start", run |-> 0, arg |-> <<>>, pre_native |-> TRUE,
   pre_table |-> mt_table_init, native_ret |-> <<>>,
   ret |-> <<>>, calls |-> <<>>]

Init ==
  /\ build \in Builds
  /\ rand_use_native = [r \in Runs |-> TRUE]
  /\ mt_table = [r \in Runs |-> mt_table_init]
  /\ native_seeded = [r \in Runs |-> FALSE]
  /\ lastSeed = [r \in Runs |-> <<>>]
  /\ expArg = [r \in Runs |-> <<>>]
  /\ clockRead = [r \in Runs |-> <<>>]
  /\ outs = [r \in Runs |-> <<>>]
  /\ nseeds = [r \in Runs |-> 0]
  /\ last = NoOp

Store(r, m) ==
  /\ rand_use_native' = [rand_use_native EXCEPT ![r] = m.rand_use_native]
  /\ mt_table' = [mt_table EXCEPT ![r] = m.mt_table]
  /\ native_seeded' = [native_seeded EXCEPT ![r] = m.native_seeded]
  /\ expArg' = [expArg EXCEPT ![r] = m.seeded_with]
  /\ clockRead' = [clockRead EXCEPT ![r] = m.clock_read]

Log(name, r, arg, m) ==
  [op |-> name, run |-> r, arg |-> arg,
   pre_native |-> rand_use_native[r], pre_table |-> mt_table[r],
   native_ret |-> m.native_ret,
   ret |-> m.ret, calls |-> m.calls]

\* the last entry point of m entered function or macro f
Entered(m, f) == \E i \in DOMAIN m.calls : m.calls[i].fn = f

\* run r has called glulx_setrandom(seed) and is left with the statics of m
SetRandomDone(r, seed, m) ==
  /\ Store(r, m)
  /\ lastSeed' = [lastSeed EXCEPT ![r] = <<seed>>]
  /\ outs' = [outs EXCEPT ![r] = <<>>]
  /\ nseeds' = [nseeds EXCEPT ![r] = @ + 1]
  /\ UNCHANGED build

\* run r has called glulx_random() and is left with the statics of m
RandomDone(r, m) ==
  /\ Store(r, m)
  /\ outs' = [outs EXCEPT ![r] =
                IF Entered(m, "mt_random") THEN Append(@, m.ret[1]) ELSE @]
  /\ UNCHANGED <<build, lastSeed, nseeds>>

\* run r calls glulx_setrandom(seed), time(NULL) being clock
SetRandom(r, seed, clock) ==
  /\ nseeds[r] < MaxSeeds
  /\ \E m \in {glulx_setrandom(build, Machine(r), seed, clock)} :
       /\ SetRandomDone(r, seed, m)
       /\ last' = Log("glulx_setrandom", r, <<seed>>, m)

\* run r calls glulx_random(), the platform RNG being about to hand out nv
Random(r, nv) ==
  /\ Len(outs[r]) < MaxOut
  /\ \E m \in {glulx_random(build, Machine(r), nv)} :
       /\ RandomDone(r, m)
       /\ last' = Log("glulx_random", r, <<>>, m)

\* one run of the program, with its call log
Next ==
  \/ \E seed \in Seeds, clock \in ClockVals : SetRandom(1, seed, clock)
  \/ \E nv \in NativeVals : Random(1, nv)

Spec == Init /\ [][Next]_vars

\* the same two entry points in one of two runs, no call log kept
PairSetRandom(r, seed, clock) ==
  /\ nseeds[r] < MaxSeeds
  /\ \E m \in {glulx_setrandom(build, Machine(r), seed, clock)} :
       SetRandomDone(r, seed, m)
  /\ UNCHANGED last

PairRandom(r, nv) ==
  /\ Len(outs[r]) < MaxOut
  /\ \E m \in {glulx_random(build, Machine(r), nv)} :
       RandomDone(r, m)
  /\ UNCHANGED last

\* two runs of the same build, interleaved in any order
NextPair ==
  \/ \E r \in Runs, seed \in Seeds, clock \in ClockVals : PairSetRandom(r, seed, clock)
  \/ \E r \in Runs, nv \in NativeVals : PairRandom(r, nv)

SpecPair == Init /\ [][NextPair]_vars

(***************************************************************************)
(* The reference forms the statements below compare the code with.         *)
(***************************************************************************)
\* mix(s): s ^= s>>15; s *= 0x85EBCA6B; s ^= s>>13; s *= 0xC2B2AE35; s ^= s>>16
RefMix(s) ==
  LET a == Xor32(s, Shr32(s, 15))
      b == Mul32(a, MIX1)
      c == Xor32(b, Shr32(b, 13))
      d == Mul32(c, MIX2)
  IN  Xor32(d, Shr32(d, 16))

\* slot i (0..3) of the reference expansion: mix((seed + (i+1)*0x9E3779B9) mod 2^32)
RefSlot(seed, i) == RefMix(Add32(seed, Mul32(W(0, i + 1), GOLDEN)))

RefExpand(seed) == <<RefSlot(seed, 0), RefSlot(seed, 1), RefSlot(seed, 2), RefSlot(seed, 3)>>

\* the reference output of a step: rotl(s1*5, 7)*9, from the pre-step s1
RefResult(t) == Mul32(rotl(Mul32(t[2], W(0, 5)), 7), W(0, 9))

\* the reference state after a step, every slot written from the pre-step state
RefNext(t) ==
  <<Xor32(Xor32(t[1], t[4]), t[2]),
    Xor32(Xor32(t[2], t[3]), t[1]),
    Xor32(Xor32(t[3], t[1]), Shl32(t[2], 9)),
    rotl(Xor32(t[4], t[2]), 11)>>

\* the last entry point entered function or macro f
Called(f) == \E i \in DOMAIN last.calls : last.calls[i].fn = f

\* how often the last entry point entered f
Count(f) == Cardinality({i \in DOMAIN last.calls : last.calls[i].fn = f})

NonzeroSeed(r) == lastSeed[r] # <<>> /\ lastSeed[r] # <<Zero32>>

MinLen(a, b) == IF Len(outs[a]) < Len(outs[b]) THEN Len(outs[a]) ELSE Len(outs[b])

\* the native source of run r has been seeded from the clock: mt_seed_random
\* has run (xoshiro), srandom has run (OS_UNIX); rand_s takes no seed
NativeSourceSeeded(r) ==
  CASE build \in BuiltinBuilds -> expArg[r] # <<>>
    [] build = "OS_UNIX" -> native_seeded[r]
    [] build = "OS_WINDOWS_MSC" -> TRUE

(***************************************************************************)
(* The statements.                                                         *)
(***************************************************************************)
\* C1: two runs that last called glulx_setrandom with the same nonzero seed
\* have drawn the same values from glulx_random, position by position,
\* whatever each of them did before that call.
C1_Determinism ==
  \A a \in Runs, b \in Runs :
    (NonzeroSeed(a) /\ lastSeed[a] = lastSeed[b]) =>
      \A i \in 1..MinLen(a, b) : outs[a][i] = outs[b][i]

\* both runs drew MaxOut-many values after the same nonzero seed, one of them
\* after an earlier glulx_setrandom
C1_Witness ==
  /\ NonzeroSeed(1) /\ lastSeed[1] = lastSeed[2]
  /\ nseeds[1] = 1 /\ nseeds[2] = 2
  /\ Len(outs[1]) >= 2 /\ Len(outs[2]) >= 2

\* C2: glulx_setrandom(S) with S # 0 leaves the mode deterministic and mt_table
\* the table a fresh process gets from S, whatever came before; a run seeded
\* with S after any history draws the same values, and holds the same
\* mt_table, as a run whose first glulx_setrandom was S.
C2_ModeSwitch ==
  /\ \A r \in Runs :
       NonzeroSeed(r) =>
         /\ ~rand_use_native[r]
         /\ outs[r] = <<>> =>
              mt_table[r] = mt_seed_random(mt_table_init, lastSeed[r][1])
  /\ \A a \in Runs, b \in Runs :
       (NonzeroSeed(a) /\ lastSeed[b] = lastSeed[a] /\ nseeds[b] = 1) =>
         /\ \A i \in 1..MinLen(a, b) : outs[a][i] = outs[b][i]
         /\ Len(outs[a]) = Len(outs[b]) => mt_table[a] = mt_table[b]

\* run 1 called glulx_setrandom(0) (srandom has run) and then
\* glulx_setrandom(S); run 2 called glulx_setrandom(S) only; both have drawn
C2_Witness ==
  /\ build = "OS_UNIX"
  /\ nseeds[1] = 2 /\ native_seeded[1] /\ NonzeroSeed(1)
  /\ nseeds[2] = 1 /\ ~native_seeded[2] /\ lastSeed[2] = lastSeed[1]
  /\ Len(outs[1]) >= 2 /\ Len(outs[2]) >= 2

\* C3: rand_use_native is TRUE exactly when no glulx_setrandom has been called
\* or the latest one had seed 0, and glulx_random leaves it as it found it.
C3_ModeFollowsSeed ==
  /\ \A r \in Runs : rand_use_native[r] = ~NonzeroSeed(r)
  /\ last.op = "glulx_random" => rand_use_native[last.run] = last.pre_native

\* glulx_random has just run after glulx_setrandom(S), glulx_setrandom(0)
C3_Witness ==
  /\ last.op = "glulx_random" /\ last.run = 1
  /\ nseeds[1] >= 2 /\ lastSeed[1] = <<Zero32>>

C5_SeedExpander ==
  (last.op = "glulx_setrandom" /\ Called("mt_seed_random")) =>
    mt_table[last.run] = RefExpand(expArg[last.run][1])

\* mt_seed_random has just run over a table that held an earlier state
C5_Witness ==
  /\ last.op = "glulx_setrandom" /\ Called("mt_seed_random")
  /\ last.pre_table # mt_table_init

\* C6: whenever mt_random has run on a state (s0,s1,s2,s3) it returned
\* rotl(s1*5,7)*9 and left s0^s3^s1, s1^s2^s0, s2^s0^(s1<<9), rotl(s3^s1,11).
C6_CoreGenerator ==
  (last.op = "glulx_random" /\ Called("mt_random")) =>
    /\ last.ret = <<RefResult(last.pre_table)>>
    /\ mt_table[last.run] = RefNext(last.pre_table)

\* mt_random has just run on a seeded state
C6_Witness ==
  /\ last.op = "glulx_random" /\ Called("mt_random")
  /\ last.pre_table # mt_table_init

\* C7: after glulx_setrandom with a nonzero seed, mt_table is not all zero,
\* and no number of glulx_random calls makes it so.
C7_NeverAllZero ==
  \A r \in Runs : NonzeroSeed(r) => mt_table[r] # mt_table_init

\* the seed 0x61C88647, whose first slot is mix(0) = 0, followed by draws
C7_Witness ==
  /\ lastSeed[1] = <<W(25032, 34375)>>
  /\ Len(outs[1]) >= 2
  /\ RefSlot(W(25032, 34375), 0) = Zero32

\* C8: glulx_random in deterministic mode makes exactly one call, mt_random,
\* and returns its value; in native mode it invokes RAND_GET exactly once and
\* returns its value unchanged; RAND_SET_SEED and RAND_GET are only ever
\* entered while rand_use_native is TRUE.
C8_Routing ==
  /\ last.op = "glulx_random" =>
       IF last.pre_native
       THEN /\ Count("RAND_GET") = 1
            /\ last.calls[1].fn = "RAND_GET"
            /\ last.native_ret # <<>>
            /\ last.ret = last.native_ret
       ELSE /\ last.calls = <<[fn |-> "mt_random", native |-> FALSE]>>
            /\ last.ret = <<mt_random(last.pre_table).result>>
            /\ mt_table[last.run] = mt_random(last.pre_table).table
  /\ \A i \in DOMAIN last.calls :
       last.calls[i].fn \in {"RAND_SET_SEED", "RAND_GET"} => last.calls[i].native

\* glulx_random has just run in deterministic mode
C8_Witness ==
  /\ last.op = "glulx_random" /\ ~last.pre_native
  /\ Len(outs[1]) >= 2

\* C9: in the build whose native RNG is the xoshiro generator,
\* glulx_setrandom(0) at clock T leaves the mode native and mt_table the
\* expansion of T mod 2^32; a run seeded that way and a run seeded with
\* glulx_setrandom(T mod 2^32), nonzero, draw the same values and hold the
\* same mt_table, and differ in rand_use_native.
C9_FallbackReuse ==
  build \in BuiltinBuilds =>
    /\ \A r \in Runs :
         lastSeed[r] = <<Zero32>> =>
           /\ rand_use_native[r]
           /\ clockRead[r] # <<>>
           /\ expArg[r] = <<W(clockRead[r][1].hi, clockRead[r][1].lo)>>
           /\ outs[r] = <<>> => mt_table[r] = RefExpand(expArg[r][1])
    /\ \A a \in Runs, b \in Runs :
         (lastSeed[a] = <<Zero32>> /\ NonzeroSeed(b) /\ expArg[a] = lastSeed[b]) =>
           /\ \A i \in 1..MinLen(a, b) : outs[a][i] = outs[b][i]
           /\ Len(outs[a]) = Len(outs[b]) => mt_table[a] = mt_table[b]
           /\ rand_use_native[a] /\ ~rand_use_native[b]

\* run 1 seeded from a clock beyond 2^32 whose low word is 1, run 2 seeded
\* with 1, both having drawn
C9_Witness ==
  /\ build \in BuiltinBuilds
  /\ lastSeed[1] = <<Zero32>> /\ clockRead[1] = <<[ext |-> 1, hi |-> 0, lo |-> 1]>>
  /\ lastSeed[2] = <<W(0, 1)>>
  /\ Len(outs[1]) >= 2 /\ Len(outs[2]) >= 2

\* C10: a step of mt_random from the all-zero table returns 0 and leaves the
\* table all zero; in the xoshiro build every glulx_random before the first
\* glulx_setrandom returns 0 and leaves mt_table all zero.
C10_ZeroFixedPoint ==
  /\ (last.op = "glulx_random" /\ Called("mt_random")
        /\ last.pre_table = mt_table_init) =>
       (last.ret = <<Zero32>> /\ mt_table[last.run] = mt_table_init)
  /\ build \in BuiltinBuilds =>
       \A r \in Runs :
         lastSeed[r] = <<>> =>
           /\ mt_table[r] = mt_table_init
           /\ \A i \in DOMAIN outs[r] : outs[r][i] = Zero32

\* draws made before any glulx_setrandom in the xoshiro build
C10_Witness ==
  /\ build \in BuiltinBuilds
  /\ lastSeed[1] = <<>>
  /\ Len(outs[1]) >= 2
  /\ Called("mt_random")

====
